---- MODULE Spec2Model ----
(***************************************************************************)
(* Model of backend/app.py of ultra-doc-intelligence: the paragraph        *)
(* chunker, embedding retrieval, the confidence scorer, the guardrails,    *)
(* the structured extractor and the upload / ask / extract endpoints over  *)
(* the in-memory document store.                                           *)
(*                                                                         *)
(* Strings are sequences of one-character strings, so that strip, split,   *)
(* join, lower and substring search are computed as Python computes them.  *)
(* Real numbers are exact rationals: a similarity is an integer number of  *)
(* 1/SimDen, a confidence is a record [num, den].                          *)
(***************************************************************************)
EXTENDS Integers, Sequences, FiniteSets, TLC

VARIABLES
    document_store,   \* app.py:49   doc_id -> stored artifacts
    clock,            \* the wall clock read by datetime.now(), in ticks
    client,           \* app.py:35   TRUE iff a generation client is configured
    embedding_model,  \* app.py:34   the encoder: text -> embedding vector
    inflight,         \* upload requests suspended at `await file.read()`
    uploads_ok,       \* number of upload requests that returned "success"
    response,         \* the last response an endpoint produced
    frame             \* locals of the library function being executed

vars == <<document_store, clock, client, embedding_model, inflight,
          uploads_ok, response, frame>>

service_vars == <<document_store, clock, client, embedding_model, inflight,
                  uploads_ok, response>>

-----------------------------------------------------------------------------
(* Python str primitives                                                   *)

Whitespace == {" ", "\n", "\t"}

SetMin(S) == CHOOSE x \in S : \A y \in S : x <= y

SetMax(S) == CHOOSE x \in S : \A y \in S : y <= x

\* str.strip()
Strip(s) ==
    LET keep == {i \in 1..Len(s) : s[i] \notin Whitespace}
    IN  IF keep = {} THEN <<>> ELSE SubSeq(s, SetMin(keep), SetMax(keep))

RECURSIVE SplitWsFrom(_, _)
\* the words of s from position i on, one word per step
SplitWsFrom(s, i) ==
    LET rest == {j \in i..Len(s) : s[j] \notin Whitespace}
    IN  IF rest = {} THEN <<>>
        ELSE LET first == SetMin(rest)
                 stops == {j \in first..Len(s) : s[j] \in Whitespace}
                 last == IF stops = {} THEN Len(s) ELSE SetMin(stops) - 1
             IN  <<SubSeq(s, first, last)>> \o SplitWsFrom(s, last + 1)

\* str.split() with no argument: runs of whitespace separate, no empty words
SplitWs(s) == SplitWsFrom(s, 1)

RECURSIVE SplitParaAcc(_, _, _)
SplitParaAcc(s, cur, acc) ==
    IF s = <<>>
    THEN Append(acc, cur)
    ELSE IF Len(s) >= 2 /\ s[1] = "\n" /\ s[2] = "\n"
         THEN SplitParaAcc(SubSeq(s, 3, Len(s)), <<>>, Append(acc, cur))
         ELSE SplitParaAcc(Tail(s), Append(cur, Head(s)), acc)

\* str.split('\n\n'): leftmost non-overlapping separators, empty pieces kept
SplitPara(s) == SplitParaAcc(s, <<>>, <<>>)

RECURSIVE Join(_, _)
\* sep.join(parts)
Join(sep, parts) ==
    IF parts = <<>> THEN <<>>
    ELSE IF Len(parts) = 1 THEN parts[1]
    ELSE parts[1] \o sep \o Join(sep, Tail(parts))

\* seq[-n:] for n >= 0 (seq[-0:] is seq[0:], the whole sequence)
LastN(seq, n) ==
    IF n = 0 \/ n >= Len(seq) THEN seq
    ELSE SubSeq(seq, Len(seq) - n + 1, Len(seq))

\* seq[:n] for n >= 0
FirstN(seq, n) == IF n >= Len(seq) THEN seq ELSE SubSeq(seq, 1, n)

\* a // b and -a // b of Python for a >= 0, b > 0 (floor division)
FloorDiv(a, b) == a \div b

NegFloorDiv(a, b) == -((a + b - 1) \div b)

NL2 == <<"\n", "\n">>

SP == <<" ">>

-----------------------------------------------------------------------------
(* DocumentProcessor.intelligent_chunk                                     *)

\* line 110: paragraphs = [p.strip() for p in text.split('\n\n') if p.strip()]
Paragraphs(text) ==
    LET raw == SplitPara(text)
        keep == {i \in 1..Len(raw) : Strip(raw[i]) # <<>>}
        RECURSIVE Pick(_)
        Pick(i) == IF i > Len(raw) THEN <<>>
                   ELSE IF i \in keep THEN <<Strip(raw[i])>> \o Pick(i + 1)
                   ELSE Pick(i + 1)
    IN  Pick(1)

\* lines 120-121: the overlap carried into the next chunk
OverlapTextNoGuard(current_chunk, overlap) ==
    Join(SP, LastN(SplitWs(current_chunk), -NegFloorDiv(overlap, 5)))

OverlapText(current_chunk, overlap) ==
    LET words == SplitWs(current_chunk)
    IN  IF Len(words) > FloorDiv(overlap, 5)
        THEN Join(SP, LastN(words, -NegFloorDiv(overlap, 5)))
        ELSE <<>>

\* lines 116-124: one iteration of the paragraph loop
ChunkIterNoContentTest(st, para, chunk_size, overlap) ==
    IF Len(st.current_chunk) + Len(para) > chunk_size
    THEN [chunks |-> Append(st.chunks, Strip(st.current_chunk)),
          current_chunk |-> OverlapText(st.current_chunk, overlap) \o SP \o para]
    ELSE [chunks |-> st.chunks,
          current_chunk |-> IF st.current_chunk # <<>>
                            THEN st.current_chunk \o NL2 \o para
                            ELSE para]

ChunkIter(st, para, chunk_size, overlap) ==
    IF Len(st.current_chunk) + Len(para) > chunk_size /\ st.current_chunk # <<>>
    THEN [chunks |-> Append(st.chunks, Strip(st.current_chunk)),
          current_chunk |-> OverlapText(st.current_chunk, overlap) \o SP \o para]
    ELSE [chunks |-> st.chunks,
          current_chunk |-> IF st.current_chunk # <<>>
                            THEN st.current_chunk \o NL2 \o para
                            ELSE para]

\* lines 133-135: fixed-size word windows; range() with step 0 raises
\* ValueError, with a negative step it is empty
RECURSIVE WordWindows(_, _, _, _)
WordWindows(words, i, chunk_size, step) ==
    IF i > Len(words) THEN <<>>
    ELSE <<Join(SP, SubSeq(words, i, SetMin({Len(words), i + chunk_size - 1})))>>
         \o WordWindows(words, i + step, chunk_size, step)

\* lines 126-137: the final chunk, the fallback and the return value;
\* raised = "ValueError" is the exception of range() with a zero step
ChunkFinish(st, text, chunk_size, overlap) ==
    LET chunks == IF st.current_chunk # <<>>
                  THEN Append(st.chunks, Strip(st.current_chunk))
                  ELSE st.chunks
    IN  IF chunks # <<>> THEN [raised |-> "none", chunks |-> chunks]
        ELSE IF chunk_size - overlap = 0
             THEN [raised |-> "ValueError", chunks |-> <<>>]
        ELSE IF chunk_size - overlap < 0 THEN [raised |-> "none", chunks |-> <<>>]
        ELSE [raised |-> "none",
              chunks |-> WordWindows(SplitWs(text), 1, chunk_size, chunk_size - overlap)]

RECURSIVE ChunkLoop(_, _, _, _, _)
ChunkLoop(st, paragraphs, i, chunk_size, overlap) ==
    IF i > Len(paragraphs) THEN st
    ELSE ChunkLoop(ChunkIter(st, paragraphs[i], chunk_size, overlap),
                   paragraphs, i + 1, chunk_size, overlap)

\* lines 102-137 as a function of its arguments
intelligent_chunk(text, chunk_size, overlap) ==
    ChunkFinish(ChunkLoop([chunks |-> <<>>, current_chunk |-> <<>>],
                          Paragraphs(text), 1, chunk_size, overlap),
                text, chunk_size, overlap)

-----------------------------------------------------------------------------
(* Python str primitives used by the scorer                               *)

UpperCase ==
    <<"A", "B", "C", "D", "E", "F", "G", "H", "I", "J", "K", "L", "M", "N",
      "O", "P", "Q", "R", "S", "T", "U", "V", "W", "X", "Y", "Z">>

LowerCase ==
    <<"a", "b", "c", "d", "e", "f", "g", "h", "i", "j", "k", "l", "m", "n",
      "o", "p", "q", "r", "s", "t", "u", "v", "w", "x", "y", "z">>

LowerMap ==
    [c \in {UpperCase[k] : k \in 1..Len(UpperCase)} |->
        LowerCase[CHOOSE k \in 1..Len(UpperCase) : UpperCase[k] = c]]

LowerChar(c) == IF c \in DOMAIN LowerMap THEN LowerMap[c] ELSE c

\* str.lower()
Lower(s) == [k \in 1..Len(s) |-> LowerChar(s[k])]

\* sub in s
Contains(sub, s) ==
    \E k \in 1..(Len(s) - Len(sub) + 1) : SubSeq(s, k, k + Len(sub) - 1) = sub

\* set(seq)
ToSet(seq) == {seq[k] : k \in 1..Len(seq)}

RECURSIVE SeqSum(_)
SeqSum(seq) == IF seq = <<>> THEN 0 ELSE Head(seq) + SeqSum(Tail(seq))

\* "\n\n---\n\n" of line 248
ContextSeparator ==
    <<"\n", "\n", "-", "-", "-", "\n", "\n">>

\* line 269
FallbackPrefix ==
    <<"B", "a", "s", "e", "d", " ", "o", "n", " ", "t", "h", "e", " ", "r",
      "e", "t", "r", "i", "e", "v", "e", "d", " ", "c", "o", "n", "t", "e",
      "x", "t", ":", " ">>

\* line 269
FallbackSuffix ==
    <<".", ".", ".">>

\* line 266
ErrorPrefix ==
    <<"E", "r", "r", "o", "r", " ", "g", "e", "n", "e", "r", "a", "t", "i",
      "n", "g", " ", "a", "n", "s", "w", "e", "r", ":", " ">>

\* line 198
PhraseNotSure ==
    <<"n", "o", "t", " ", "s", "u", "r", "e">>

\* line 198
PhraseUnclear ==
    <<"u", "n", "c", "l", "e", "a", "r">>

\* line 198
PhraseCannotDetermine ==
    <<"c", "a", "n", "n", "o", "t", " ", "d", "e", "t", "e", "r", "m", "i",
      "n", "e">>

\* line 198
PhraseNotFound ==
    <<"n", "o", "t", " ", "f", "o", "u", "n", "d">>

\* line 198
PhraseUnknown ==
    <<"u", "n", "k", "n", "o", "w", "n">>

-----------------------------------------------------------------------------
(* RAGEngine                                                               *)

\* Embeddings are vectors of length 25 with integer coordinates, so that the
\* cosine of two of them is their dot product over SimDen, exactly.
SimDen == 25 * 25

Dot(u, v) == u[1] * v[1] + u[2] * v[2]

\* line 144: 0.25, line 145: 0.4, line 146: 0.7, in hundredths
min_similarity_threshold == 25

low_confidence_threshold == 40

high_confidence_threshold == 70

\* lines 148-150: one embedding per chunk, from the shared encoder
create_embeddings(chunks) == [k \in 1..Len(chunks) |-> embedding_model[chunks[k]]]

\* line 161: cosine_similarity(query_embedding, embeddings)[0], in 1/SimDen
cosine_similarity(query_embedding, embeddings) ==
    [k \in 1..Len(embeddings) |-> Dot(query_embedding, embeddings[k])]

\* line 164, np.argsort(similarities): the default kind is not stable, so
\* every permutation that sorts ascending is a possible result
ArgsortOutcomes(similarities) ==
    LET n == Len(similarities)
    IN  {p \in [1..n -> 1..n] :
            /\ \A a, b \in 1..n : a # b => p[a] # p[b]
            /\ \A a, b \in 1..n : a < b => similarities[p[a]] <= similarities[p[b]]}

\* line 164, [::-1][:top_k]
TopIndices(order, top_k) ==
    FirstN([k \in 1..Len(order) |-> order[Len(order) + 1 - k]], top_k)

\* lines 152-168: the results retrieve_relevant_chunks can produce.  With no
\* embeddings the outcome is the library's: cosine_similarity either rejects
\* the empty array (ValueError) or returns no similarities.
RetrieveOutcomes(query, chunks, embeddings, top_k) ==
    IF Len(embeddings) = 0
    THEN {[raised |-> "ValueError", top_indices |-> <<>>,
           retrieved_chunks |-> <<>>, retrieved_scores |-> <<>>],
          [raised |-> "none", top_indices |-> <<>>,
           retrieved_chunks |-> <<>>, retrieved_scores |-> <<>>]}
    ELSE LET similarities == cosine_similarity(embedding_model[query], embeddings)
         IN  {LET top_indices == TopIndices(order, top_k)
              IN  [raised |-> "none", top_indices |-> top_indices,
                   retrieved_chunks |->
                       [k \in 1..Len(top_indices) |-> chunks[top_indices[k]]],
                   retrieved_scores |->
                       [k \in 1..Len(top_indices) |-> similarities[top_indices[k]]]]
              : order \in ArgsortOutcomes(similarities)}

\* line 198
uncertainty_phrases ==
    {PhraseNotSure, PhraseUnclear, PhraseCannotDetermine, PhraseNotFound,
     PhraseUnknown}

\* total_confidence >= threshold (in hundredths), < is its negation
AtLeast(conf, threshold) == 100 * conf.num >= threshold * conf.den

\* lines 183-202: the four factors over the common denominator
\* SimDen * n * 20 * m * 10, n the number of similarities (1 when none) and
\* m = max(len(answer_words), 1)
TotalConfidence(similarities, answer, context) ==
    LET n == IF similarities = <<>> THEN 1 ELSE Len(similarities)
        sum == SeqSum(similarities)
        answer_length == Len(SplitWs(answer))
        capped == IF answer_length < 20 THEN answer_length ELSE 20
        lowered == Lower(answer)
        answer_words == ToSet(SplitWs(lowered))
        context_words == ToSet(SplitWs(Lower(context)))
        common == Cardinality(answer_words \cap context_words)
        m == IF Cardinality(answer_words) > 1 THEN Cardinality(answer_words) ELSE 1
        has_uncertainty == \E phrase \in uncertainty_phrases :
                              Contains(phrase, lowered)
        certain == IF has_uncertainty THEN 0 ELSE 2
    IN  [num |-> 4 * sum * 20 * m
                 + 2 * capped * SimDen * n * m
                 + 2 * common * SimDen * n * 20
                 + certain * SimDen * n * 20 * m,
         den |-> SimDen * n * 20 * m * 10]

\* lines 204-210
Reasoning(conf) ==
    IF AtLeast(conf, high_confidence_threshold)
    THEN "High confidence: Strong retrieval match with complete answer"
    ELSE IF AtLeast(conf, low_confidence_threshold)
    THEN "Medium confidence: Partial match found in document"
    ELSE "Low confidence: Weak or no relevant information found"

\* lines 170-212
calculate_confidence(similarities, answer, context) ==
    LET total_confidence == TotalConfidence(similarities, answer, context)
    IN  [confidence |-> total_confidence, reasoning |-> Reasoning(total_confidence)]

\* max(similarities) < min_similarity_threshold
MaxBelowThreshold(similarities) ==
    \A k \in 1..Len(similarities) :
        100 * similarities[k] < min_similarity_threshold * SimDen

\* lines 214-233: the message is modelled by its tag, "None" is no message
apply_guardrails_low_first(similarities, confidence) ==
    IF ~AtLeast(confidence, low_confidence_threshold) THEN "LOW_CONFIDENCE"
    ELSE IF similarities = <<>> \/ MaxBelowThreshold(similarities) THEN "NOT_FOUND"
    ELSE "None"

apply_guardrails_scope_only(similarities, confidence) ==
    IF similarities = <<>> \/ MaxBelowThreshold(similarities) THEN "NOT_FOUND"
    ELSE "None"

apply_guardrails(similarities, confidence) ==
    IF similarities = <<>> \/ MaxBelowThreshold(similarities) THEN "NOT_FOUND"
    ELSE IF ~AtLeast(confidence, low_confidence_threshold) THEN "LOW_CONFIDENCE"
    ELSE "None"

\* round(x, 3) of line 286 in thousandths, ties to even (digit by digit, to
\* stay within TLC's 32-bit integers)
Round3(conf) ==
    LET d0 == conf.num \div conf.den
        r0 == conf.num % conf.den
        d1 == (10 * r0) \div conf.den
        r1 == (10 * r0) % conf.den
        d2 == (10 * r1) \div conf.den
        r2 == (10 * r1) % conf.den
        d3 == (10 * r2) \div conf.den
        r3 == (10 * r2) % conf.den
        q == 1000 * d0 + 100 * d1 + 10 * d2 + d3
    IN  IF 2 * r3 > conf.den THEN q + 1
        ELSE IF 2 * r3 < conf.den THEN q
        ELSE IF q % 2 = 0 THEN q ELSE q + 1

Zero == [num |-> 0, den |-> 1]

\* lines 251-269: the answer text.  llm is what the generation call did:
\* [raised |-> TRUE, text |-> str(e)] or [raised |-> FALSE, text |-> content]
AnswerText(retrieved_chunks, llm) ==
    IF client
    THEN [raised |-> "none",
          text |-> IF llm.raised THEN ErrorPrefix \o llm.text ELSE llm.text]
    ELSE IF retrieved_chunks = <<>>
         THEN [raised |-> "IndexError", text |-> <<>>]
         ELSE [raised |-> "none",
               text |-> FallbackPrefix \o FirstN(retrieved_chunks[1], 200)
                        \o FallbackSuffix]

\* line 227
NotFoundMessage ==
    <<"N", "O", "T", "_", "F", "O", "U", "N", "D", ":", " ", "N", "o", " ",
      "r", "e", "l", "e", "v", "a", "n", "t", " ", "i", "n", "f", "o", "r",
      "m", "a", "t", "i", "o", "n", " ", "f", "o", "u", "n", "d", " ", "i",
      "n", " ", "t", "h", "e", " ", "d", "o", "c", "u", "m", "e", "n", "t",
      ".", " ", "T", "h", "e", " ", "q", "u", "e", "s", "t", "i", "o", "n",
      " ", "m", "a", "y", " ", "b", "e", " ", "o", "u", "t", "s", "i", "d",
      "e", " ", "t", "h", "e", " ", "d", "o", "c", "u", "m", "e", "n", "t",
      "'", "s", " ", "s", "c", "o", "p", "e", ".">>

\* line 231, before the formatted confidence
LowConfidencePrefix ==
    <<"L", "O", "W", "_", "C", "O", "N", "F", "I", "D", "E", "N", "C", "E",
      ":", " ", "T", "h", "e", " ", "a", "n", "s", "w", "e", "r", " ", "h",
      "a", "s", " ", "l", "o", "w", " ", "c", "o", "n", "f", "i", "d", "e",
      "n", "c", "e", " ", "(">>

\* line 231, after the formatted confidence
LowConfidenceSuffix ==
    <<")", ".", " ", "T", "h", "e", " ", "i", "n", "f", "o", "r", "m", "a",
      "t", "i", "o", "n", " ", "m", "a", "y", " ", "n", "o", "t", " ", "b",
      "e", " ", "r", "e", "l", "i", "a", "b", "l", "e", ".">>

Digits == <<"0", "1", "2", "3", "4", "5", "6", "7", "8", "9">>

\* the decimal digits of a natural number
RECURSIVE NatText(_)
NatText(n) ==
    IF n < 10 THEN <<Digits[n + 1]>>
    ELSE NatText(n \div 10) \o <<Digits[(n % 10) + 1]>>

\* conf rounded to hundredths, ties to even
Round2(conf) ==
    LET d0 == conf.num \div conf.den
        r0 == conf.num % conf.den
        d1 == (10 * r0) \div conf.den
        r1 == (10 * r0) % conf.den
        d2 == (10 * r1) \div conf.den
        r2 == (10 * r1) % conf.den
        q == 100 * d0 + 10 * d1 + d2
    IN  IF 2 * r2 > conf.den THEN q + 1
        ELSE IF 2 * r2 < conf.den THEN q
        ELSE IF q % 2 = 0 THEN q ELSE q + 1

\* f"{confidence:.2f}" of line 231: sign, integer part, point, two digits
Format2f(conf) ==
    LET h == Round2(conf)
        a == IF h < 0 THEN 0 - h ELSE h
    IN  (IF conf.num < 0 THEN <<"-">> ELSE <<>>)
        \o NatText(a \div 100)
        \o <<".", Digits[((a \div 10) % 10) + 1], Digits[(a % 10) + 1]>>

\* lines 227 and 231: the text of the message apply_guardrails returned
GuardrailText(guardrail_message, confidence) ==
    IF guardrail_message = "NOT_FOUND" THEN NotFoundMessage
    ELSE LowConfidencePrefix \o Format2f(confidence) \o LowConfidenceSuffix

\* lines 271-288: scoring, guardrails and the Answer returned
GuardedAnswerKeepScore(retrieved_chunks, similarities, answer_text, context) ==
    LET scored == calculate_confidence(similarities, answer_text, context)
        guardrail_message == apply_guardrails(similarities, scored.confidence)
        triggered == guardrail_message # "None"
    IN  [raised |-> "none",
         similarities |-> similarities,
         generated |-> answer_text,
         raw_confidence |-> scored.confidence,
         raw_reasoning |-> scored.reasoning,
         guardrail_message |-> guardrail_message,
         answer |-> IF triggered THEN guardrail_message ELSE "generated",
         answer_text |-> IF triggered
                         THEN GuardrailText(guardrail_message, scored.confidence)
                         ELSE answer_text,
         sources |-> retrieved_chunks,
         confidence |-> Round3(scored.confidence),
         reasoning |-> IF triggered THEN "Guardrail triggered" ELSE scored.reasoning]

GuardedAnswer(retrieved_chunks, similarities, answer_text, context) ==
    LET scored == calculate_confidence(similarities, answer_text, context)
        guardrail_message == apply_guardrails(similarities, scored.confidence)
        triggered == guardrail_message # "None"
    IN  [raised |-> "none",
         similarities |-> similarities,
         generated |-> answer_text,
         raw_confidence |-> scored.confidence,
         raw_reasoning |-> scored.reasoning,
         guardrail_message |-> guardrail_message,
         answer |-> IF triggered THEN guardrail_message ELSE "generated",
         answer_text |-> IF triggered
                         THEN GuardrailText(guardrail_message, scored.confidence)
                         ELSE answer_text,
         sources |-> retrieved_chunks,
         confidence |-> Round3(IF triggered THEN Zero ELSE scored.confidence),
         reasoning |-> IF triggered THEN "Guardrail triggered" ELSE scored.reasoning]

Raised(exception) ==
    [raised |-> exception, similarities |-> <<>>, generated |-> <<>>,
     raw_confidence |-> Zero, raw_reasoning |-> "", guardrail_message |-> "None",
     answer |-> "", answer_text |-> <<>>, sources |-> <<>>, confidence |-> 0,
     reasoning |-> ""]

\* lines 235-288, given what retrieval (retrieved, one of RetrieveOutcomes)
\* and the generation call (llm) did.  The result holds the locals of the
\* call beside the fields of the Answer; answer_text is the answer field,
\* and answer its kind: the guardrail message's tag, or "generated".
answer_question(retrieved, llm) ==
    IF retrieved.raised # "none" THEN Raised(retrieved.raised)
    ELSE LET context == Join(ContextSeparator, retrieved.retrieved_chunks)
             text == AnswerText(retrieved.retrieved_chunks, llm)
         IN  IF text.raised # "none" THEN Raised(text.raised)
             ELSE GuardedAnswer(retrieved.retrieved_chunks,
                                retrieved.retrieved_scores, text.text, context)

-----------------------------------------------------------------------------
(* StructuredExtractor                                                     *)

\* lines 66-76: the eleven optional fields of StructuredData
SchemaFields ==
    {"shipment_id", "shipper", "consignee", "pickup_datetime",
     "delivery_datetime", "equipment_type", "mode", "rate", "currency",
     "weight", "carrier_name"}

\* line 339 (and 298): StructuredData(confidence=0.0)
EmptyStructuredData ==
    [fields |-> [f \in SchemaFields |-> "None"], confidence |-> 0]

\* A parsed JSON object is a function from keys to "null", "string" or
\* "number"; "absent" marks a key the object does not carry.
Carried(data) == {k \in DOMAIN data : data[k] # "absent"}

\* line 331: sum(1 for v in data.values() if v is not None)
NonNullCount(data) == Cardinality({k \in Carried(data) : data[k] # "null"})

\* line 334: StructuredData(**data, confidence=...).  A "confidence" key in
\* data is a duplicate keyword argument (TypeError); keys outside the model
\* are ignored; a number for a string field is coerced or rejected,
\* depending on the pydantic major version (coerce).
BuildStructuredData(data, confidence, coerce) ==
    IF "confidence" \in Carried(data) THEN [raised |-> "TypeError"]
    ELSE IF ~coerce /\ \E k \in Carried(data) \cap SchemaFields : data[k] = "number"
    THEN [raised |-> "ValidationError"]
    ELSE [raised |-> "none",
          value |-> [fields |-> [f \in SchemaFields |->
                                    IF f \in Carried(data) /\ data[f] # "null"
                                    THEN "str" ELSE "None"],
                     confidence |-> confidence]]

\* lines 331-332
ExtractionConfidence(data) == [num |-> NonNullCount(data), den |-> 11]

\* lines 295-339.  llm is what the generation call did: kind "raise" (the
\* call failed), "no_json" (no brace-delimited substring), "bad_json"
\* (json.loads failed) or "object" with the parsed data.
extract_structured_data(llm, coerce) ==
    IF ~client THEN EmptyStructuredData
    ELSE IF llm.kind # "object" THEN EmptyStructuredData
    ELSE LET built == BuildStructuredData(llm.data,
                                          Round3(ExtractionConfidence(llm.data)),
                                          coerce)
         IN  IF built.raised # "none" THEN EmptyStructuredData ELSE built.value

-----------------------------------------------------------------------------
(* Inputs of the bounded model                                             *)

TextRate ==
    <<"R", "a", "t", "e", " ", "1", "5", "0", "0", " ", "U", "S", "D">>

TextWeight ==
    <<"w", "e", "i", "g", "h", "t", " ", "2", "5", " ", "l", "b", "s">>

QuestionRate ==
    <<"W", "h", "a", "t", " ", "i", "s", " ", "t", "h", "e", " ", "r", "a",
      "t", "e", "?">>

AnswerEmpty == <<>>

AnswerShort ==
    <<"2", "5", " ", "l", "b", "s">>

AnswerUnknown ==
    <<"U", "n", "k", "n", "o", "w", "n">>

AnswerRate ==
    <<"r", "a", "t", "e", " ", "1", "5", "0", "0", " ", "u", "s", "d">>

AnswerNotFound ==
    <<"I", "n", "f", "o", "r", "m", "a", "t", "i", "o", "n", " ", "n", "o",
      "t", " ", "f", "o", "u", "n", "d", " ", "i", "n", " ", "d", "o", "c",
      "u", "m", "e", "n", "t", ".">>

ErrorText ==
    <<"t", "i", "m", "e", "o", "u", "t">>

RECURSIVE Repeat(_, _)
Repeat(s, n) == IF n = 0 THEN <<>> ELSE s \o Repeat(s, n - 1)

\* twenty-one words, each a word of TextRate in lower case
AnswerLong == Strip(Repeat(<<"u", "s", "d", " ">>, 21))

\* directions of length 25: cosines 1, 0.28, 0.28, -1 against <<25, 0>>
Vectors == {<<25, 0>>, <<7, 24>>, <<7, -24>>, <<-25, 0>>}

ChunkStrings == {TextRate, TextWeight}

Questions == {QuestionRate}

Answers == {AnswerEmpty, AnswerShort, AnswerUnknown, AnswerRate, AnswerNotFound,
            AnswerLong}

\* what the generation call of lines 263-266 can do
GenerationOutcomes ==
    {[raised |-> TRUE, text |-> ErrorText]}
    \cup {[raised |-> FALSE, text |-> a] : a \in Answers}

EncoderTables == [ChunkStrings \cup Questions -> Vectors]

MaxChunks == 3

ChunkLists == UNION {[1..n -> ChunkStrings] : n \in 0..MaxChunks}

-----------------------------------------------------------------------------
(* The chunker run one loop iteration at a time                            *)

MaxTextLen == 6

TextAlphabet == {"a", "b", " ", "\n"}

ChunkTexts == UNION {[1..n -> TextAlphabet] : n \in 0..MaxTextLen}

ChunkSizes == {2, 3, 5}

Overlaps == {0, 3, 5, 7, 10}

IdleService ==
    /\ document_store = <<>>
    /\ clock = 0
    /\ client = FALSE
    /\ embedding_model = <<>>
    /\ inflight = <<>>
    /\ uploads_ok = 0
    /\ response = [endpoint |-> "none"]

InitChunk ==
    /\ IdleService
    /\ \E text \in ChunkTexts, chunk_size \in ChunkSizes, overlap \in Overlaps :
          frame = [fn |-> "intelligent_chunk", pc |-> "loop",
                   text |-> text, chunk_size |-> chunk_size, overlap |-> overlap,
                   paragraphs |-> Paragraphs(text), i |-> 1,
                   chunks |-> <<>>, current_chunk |-> <<>>, raised |-> "none",
                   split_at |-> 0]

\* lines 115-124; split_at observes the index of the paragraph that
\* triggered the latest split (0 before the first split)
ChunkLoopStep ==
    /\ frame.fn = "intelligent_chunk" /\ frame.pc = "loop"
    /\ frame.i <= Len(frame.paragraphs)
    /\ LET st == ChunkIter([chunks |-> frame.chunks,
                            current_chunk |-> frame.current_chunk],
                           frame.paragraphs[frame.i], frame.chunk_size, frame.overlap)
       IN  frame' = [frame EXCEPT !.i = @ + 1, !.chunks = st.chunks,
                                  !.current_chunk = st.current_chunk,
                                  !.split_at = IF Len(st.chunks) > Len(frame.chunks)
                                               THEN frame.i ELSE @]
    /\ UNCHANGED service_vars

\* lines 126-137
ChunkReturn ==
    /\ frame.fn = "intelligent_chunk" /\ frame.pc = "loop"
    /\ frame.i > Len(frame.paragraphs)
    /\ LET r == ChunkFinish([chunks |-> frame.chunks,
                             current_chunk |-> frame.current_chunk],
                            frame.text, frame.chunk_size, frame.overlap)
       IN  frame' = [frame EXCEPT !.pc = "done", !.chunks = r.chunks,
                                  !.raised = r.raised]
    /\ UNCHANGED service_vars

NextChunk == ChunkLoopStep \/ ChunkReturn

SpecChunk == InitChunk /\ [][NextChunk]_vars

ChunkDone == frame.fn = "intelligent_chunk" /\ frame.pc = "done"

HasNonWhitespace(s) == \E i \in 1..Len(s) : s[i] \notin Whitespace

ChunksWellFormed ==
    /\ frame.raised = "none"
    /\ frame.chunks # <<>>
    /\ \A k \in 1..Len(frame.chunks) : Strip(frame.chunks[k]) # <<>>

\* C5 (as stated): for every non-empty text, whitespace-only text included,
\* intelligent_chunk returns a non-empty sequence of chunks, each non-empty
\* after trimming.
C5_NonEmptyTextChunks ==
    (ChunkDone /\ frame.text # <<>>) => ChunksWellFormed

\* C5 (amended): for every text holding at least one non-whitespace
\* character, intelligent_chunk returns without raising a non-empty sequence
\* of chunks, each non-empty after trimming.
C5_NonBlankTextChunks ==
    (ChunkDone /\ HasNonWhitespace(frame.text)) => ChunksWellFormed

\* a text with a blank-line boundary that was split into several chunks
C5_Witness ==
    /\ ChunkDone /\ HasNonWhitespace(frame.text)
    /\ Len(frame.paragraphs) >= 2 /\ Len(frame.chunks) >= 2

\* A split has happened: the chunk in progress (the last chunk returned,
\* once the function is done) is the one that followed the latest split.
AfterSplit == frame.fn = "intelligent_chunk" /\ frame.split_at > 0

\* the words of the chunk the latest split closed
ClosedWords ==
    SplitWs(frame.chunks[IF frame.pc = "done" THEN Len(frame.chunks) - 1
                         ELSE Len(frame.chunks)])

\* the paragraph that triggered the latest split
TriggerPara == frame.paragraphs[frame.split_at]

\* the chunk that followed the latest split, as it is (or will be) emitted
FollowingChunk ==
    IF frame.pc = "done" THEN frame.chunks[Len(frame.chunks)]
    ELSE Strip(frame.current_chunk)

IsPrefix(p, s) == Len(p) <= Len(s) /\ SubSeq(s, 1, Len(p)) = p

\* the last n words of ws, all of them when there are fewer than n
TailWords(ws, n) ==
    IF n >= Len(ws) THEN ws ELSE SubSeq(ws, Len(ws) - n + 1, Len(ws))

\* C10 (as stated): after a split the next chunk starts with the last
\* overlap/5 words of the closed chunk (all of its words when it has fewer)
\* followed by the paragraph that triggered the split; stated for overlaps
\* that are positive multiples of 5, where overlap/5 is a word count.
C10_OverlapSeed ==
    (AfterSplit /\ frame.overlap > 0 /\ frame.overlap % 5 = 0) =>
        IsPrefix(Join(SP, TailWords(ClosedWords, frame.overlap \div 5)
                          \o <<TriggerPara>>),
                 FollowingChunk)

\* C10 (amended): after a split, a closed chunk with more than
\* floor(overlap/5) words seeds the next chunk with its last
\* ceil(overlap/5) words (all of its words when overlap is 0), a space and
\* the triggering paragraph; a closed chunk with at most floor(overlap/5)
\* words carries no overlap and the next chunk starts with the paragraph.
C10_OverlapSeedGuarded ==
    AfterSplit =>
        LET lo == frame.overlap \div 5
            hi == (frame.overlap + 4) \div 5
            seed == IF Len(ClosedWords) <= lo THEN <<>>
                    ELSE IF hi = 0 THEN ClosedWords
                    ELSE TailWords(ClosedWords, hi)
        IN  /\ IsPrefix(Join(SP, seed \o <<TriggerPara>>), FollowingChunk)
            /\ (frame.pc = "loop" /\ frame.i = frame.split_at + 1) =>
                  frame.current_chunk = Join(SP, seed) \o SP \o TriggerPara

\* the function returned after a split whose closed chunk had at most
\* overlap/5 words
C10_Witness ==
    /\ AfterSplit /\ frame.pc = "done"
    /\ frame.overlap \div 5 > 0
    /\ Len(ClosedWords) <= frame.overlap \div 5

-----------------------------------------------------------------------------
(* RAGEngine.calculate_confidence on its own                               *)

MaxSims == 3

\* cosines -1, -0.28, 0, 0.28, 1 in 1/SimDen
SimGrid == {-SimDen, -175, 0, 175, SimDen}

SimLists == UNION {[1..n -> SimGrid] : n \in 0..MaxSims}

Contexts == {<<>>, TextRate, TextRate \o ContextSeparator \o TextWeight}

InitConfidence ==
    /\ IdleService
    /\ \E similarities \in SimLists, answer \in Answers, context \in Contexts :
          frame = [fn |-> "calculate_confidence", pc |-> "call",
                   similarities |-> similarities, answer |-> answer,
                   context |-> context, ret |-> [confidence |-> Zero, reasoning |-> ""]]

\* lines 170-212
Score ==
    /\ frame.fn = "calculate_confidence" /\ frame.pc = "call"
    /\ frame' = [frame EXCEPT !.pc = "return",
                    !.ret = calculate_confidence(frame.similarities, frame.answer,
                                                 frame.context)]
    /\ UNCHANGED service_vars

NextConfidence == Score

SpecConfidence == InitConfidence /\ [][NextConfidence]_vars

\* C4: calculate_confidence returns a total in [0,1] for every list of
\* similarities in [-1,1], the empty list included, and every answer and
\* context string.
C4_ConfidenceInUnitInterval ==
    (frame.fn = "calculate_confidence" /\ frame.pc = "return") =>
        /\ 0 <= frame.ret.confidence.num
        /\ frame.ret.confidence.num <= frame.ret.confidence.den

-----------------------------------------------------------------------------
(* RAGEngine.retrieve_relevant_chunks on its own                           *)

MaxTopK == 3

NoRetrieval ==
    [raised |-> "none", top_indices |-> <<>>, retrieved_chunks |-> <<>>,
     retrieved_scores |-> <<>>]

InitRetrieve ==
    /\ document_store = <<>> /\ clock = 0 /\ client = FALSE /\ inflight = <<>>
    /\ uploads_ok = 0 /\ response = [endpoint |-> "none"]
    /\ embedding_model \in EncoderTables
    /\ \E query \in Questions, chunks \in ChunkLists, top_k \in 0..MaxTopK :
          frame = [fn |-> "retrieve_relevant_chunks", pc |-> "call",
                   query |-> query, chunks |-> chunks,
                   embeddings |-> create_embeddings(chunks), top_k |-> top_k,
                   ret |-> NoRetrieval]

\* lines 152-168
Retrieve ==
    /\ frame.fn = "retrieve_relevant_chunks" /\ frame.pc = "call"
    /\ \E r \in RetrieveOutcomes(frame.query, frame.chunks, frame.embeddings,
                                 frame.top_k) :
          frame' = [frame EXCEPT !.pc = "return", !.ret = r]
    /\ UNCHANGED service_vars

NextRetrieve == Retrieve

SpecRetrieve == InitRetrieve /\ [][NextRetrieve]_vars

\* the chunk indices by descending similarity, equal similarities in
\* original chunk order
StableDescending(similarities) ==
    LET n == Len(similarities)
    IN  CHOOSE p \in [1..n -> 1..n] :
            \A a, b \in 1..n : a < b =>
                \/ similarities[p[a]] > similarities[p[b]]
                \/ similarities[p[a]] = similarities[p[b]] /\ p[a] < p[b]

\* C6: retrieve_relevant_chunks returns the first min(top_k, number of
\* chunks) entries of the chunks sorted by descending similarity, ties in
\* original chunk order, with the scores paired index for index.
C6_TopKStableDescending ==
    (frame.fn = "retrieve_relevant_chunks" /\ frame.pc = "return"
        /\ frame.ret.raised = "none" /\ frame.chunks # <<>>) =>
        LET similarities == cosine_similarity(embedding_model[frame.query],
                                              frame.embeddings)
            expected == FirstN(StableDescending(similarities), frame.top_k)
        IN  /\ frame.ret.retrieved_chunks =
                   [k \in 1..Len(expected) |-> frame.chunks[expected[k]]]
            /\ frame.ret.retrieved_scores =
                   [k \in 1..Len(expected) |-> similarities[expected[k]]]

-----------------------------------------------------------------------------
(* RAGEngine.answer_question on its own                                    *)

InitAnswer ==
    /\ document_store = <<>> /\ clock = 0 /\ inflight = <<>>
    /\ uploads_ok = 0 /\ response = [endpoint |-> "none"]
    /\ client \in BOOLEAN
    /\ embedding_model \in EncoderTables
    /\ \E question \in Questions, chunks \in ChunkLists :
          frame = [fn |-> "answer_question", pc |-> "call",
                   question |-> question, chunks |-> chunks,
                   embeddings |-> create_embeddings(chunks),
                   ret |-> Raised("none")]

\* lines 235-288 (top_k=3 is line 244)
Answer ==
    /\ frame.fn = "answer_question" /\ frame.pc = "call"
    /\ \E retrieved \in RetrieveOutcomes(frame.question, frame.chunks,
                                         frame.embeddings, 3),
          llm \in GenerationOutcomes :
          frame' = [frame EXCEPT !.pc = "return",
                                 !.ret = answer_question(retrieved, llm)]
    /\ UNCHANGED service_vars

NextAnswer == Answer

SpecAnswer == InitAnswer /\ [][NextAnswer]_vars

\* answer_question got as far as its guardrail check and returned an Answer
AnswerReturned ==
    frame.fn = "answer_question" /\ frame.pc = "return" /\ frame.ret.raised = "none"

\* the similarities are empty or their maximum is below 0.25
OutOfScope(similarities) ==
    \A k \in 1..Len(similarities) : 4 * similarities[k] < SimDen

\* the raw confidence is below 0.4
RawBelowLow(conf) == 5 * conf.num < 2 * conf.den

\* C2: Rule 1 (NOT_FOUND) triggers iff the retrieved similarities are empty
\* or their maximum is below 0.25; when it triggers the Answer has
\* confidence 0 and reasoning 'Guardrail triggered', whatever the raw
\* confidence.
C2_ScopeGuardrail ==
    AnswerReturned =>
        /\ frame.ret.answer = "NOT_FOUND" <=> OutOfScope(frame.ret.similarities)
        /\ frame.ret.answer = "NOT_FOUND" =>
              /\ frame.ret.confidence = 0
              /\ frame.ret.reasoning = "Guardrail triggered"

\* Rule 1 overrides an answer whose raw confidence is at least 0.4
C2_Witness ==
    /\ AnswerReturned
    /\ frame.ret.answer = "NOT_FOUND"
    /\ frame.ret.similarities # <<>>
    /\ ~RawBelowLow(frame.ret.raw_confidence)

\* C3: Rule 2 (LOW_CONFIDENCE) triggers iff Rule 1 did not and the raw
\* confidence is below 0.4; when it triggers the returned confidence is 0;
\* when both conditions hold the Rule 1 message is the one returned.
C3_TrustGuardrail ==
    AnswerReturned =>
        /\ frame.ret.answer = "LOW_CONFIDENCE" <=>
              (~OutOfScope(frame.ret.similarities)
               /\ RawBelowLow(frame.ret.raw_confidence))
        /\ frame.ret.answer = "LOW_CONFIDENCE" => frame.ret.confidence = 0
        /\ (OutOfScope(frame.ret.similarities)
            /\ RawBelowLow(frame.ret.raw_confidence)) =>
              frame.ret.answer = "NOT_FOUND"

\* Rule 2 overrides an answer retrieved with similarity at least 0.25
C3_Witness ==
    /\ AnswerReturned
    /\ frame.ret.answer = "LOW_CONFIDENCE"
    /\ frame.ret.confidence = 0
    /\ Len(frame.ret.similarities) >= 2

NotFoundTag == <<"N", "O", "T", "_", "F", "O", "U", "N", "D">>

LowConfidenceTag ==
    <<"L", "O", "W", "_", "C", "O", "N", "F", "I", "D", "E", "N", "C", "E">>

\* the Answer is a guardrail refusal: confidence 0, 'Guardrail triggered',
\* and a NOT_FOUND or LOW_CONFIDENCE text
RefusalAnswer(ret) ==
    /\ ret.confidence = 0
    /\ ret.reasoning = "Guardrail triggered"
    /\ \/ IsPrefix(NotFoundTag, ret.answer_text)
       \/ IsPrefix(LowConfidenceTag, ret.answer_text)

\* the Answer passes the generated text on: confidence at least 0.4 (400
\* thousandths), the scorer's Medium or High reasoning, the text unchanged
PassedAnswer(ret) ==
    /\ ret.confidence >= 400
    /\ ret.reasoning \in
          {"Medium confidence: Partial match found in document",
           "High confidence: Strong retrieval match with complete answer"}
    /\ ret.reasoning = ret.raw_reasoning
    /\ ret.answer_text = ret.generated

\* C11: every Answer answer_question returns either has confidence exactly
\* 0 with reasoning 'Guardrail triggered' and a NOT_FOUND or LOW_CONFIDENCE
\* text, or has confidence at least 0.4 with the scorer's Medium or High
\* reasoning and the generated text unchanged; the scorer's 'Low
\* confidence' reasoning is never the reasoning of a returned Answer.
C11_RefusedOrTrusted ==
    AnswerReturned =>
        /\ RefusalAnswer(frame.ret) \/ PassedAnswer(frame.ret)
        /\ frame.ret.reasoning #
              "Low confidence: Weak or no relevant information found"

\* the scorer said 'Low confidence' of an answer retrieved in scope, and
\* the Answer returned carries the LOW_CONFIDENCE text instead
C11_Witness ==
    /\ AnswerReturned
    /\ ~OutOfScope(frame.ret.similarities)
    /\ frame.ret.raw_reasoning =
          "Low confidence: Weak or no relevant information found"
    /\ frame.ret.raw_confidence.num > 0
    /\ IsPrefix(LowConfidenceTag, frame.ret.answer_text)
    /\ frame.ret.reasoning = "Guardrail triggered"

-----------------------------------------------------------------------------
(* StructuredExtractor.extract_structured_data on its own                  *)

PlainFields == SchemaFields \ {"shipment_id", "rate"}

JsonKeys == SchemaFields \cup {"notes", "confidence"}

\* the JSON objects of the bounded model: nine fields null or a string,
\* shipment_id also absent, rate also absent or a number, an extra key
\* "notes", and possibly a key named "confidence"
JsonObjects ==
    {[k \in JsonKeys |->
        IF k \in PlainFields THEN (IF k \in present THEN "string" ELSE "null")
        ELSE IF k = "shipment_id" THEN shipment_id
        ELSE IF k = "rate" THEN rate
        ELSE IF k = "notes" THEN notes
        ELSE conf]
     : present \in SUBSET PlainFields,
       shipment_id \in {"absent", "null", "string"},
       rate \in {"absent", "null", "string", "number"},
       notes \in {"absent", "null", "string"},
       conf \in {"absent", "number"}}

NoData == [k \in JsonKeys |-> "absent"]

ExtractionOutcomes ==
    {[kind |-> k, data |-> NoData] : k \in {"raise", "no_json", "bad_json"}}
    \cup {[kind |-> "object", data |-> d] : d \in JsonObjects}

InitExtract ==
    /\ document_store = <<>> /\ clock = 0 /\ inflight = <<>>
    /\ uploads_ok = 0 /\ response = [endpoint |-> "none"]
    /\ embedding_model = <<>>
    /\ client \in BOOLEAN
    /\ \E text \in {<<>>, TextRate} :
          frame = [fn |-> "extract_structured_data", pc |-> "call", text |-> text,
                   llm |-> [kind |-> "none", data |-> NoData], coerce |-> FALSE,
                   ret |-> EmptyStructuredData]

\* lines 295-339
Extract ==
    /\ frame.fn = "extract_structured_data" /\ frame.pc = "call"
    /\ \E llm \in ExtractionOutcomes, coerce \in BOOLEAN :
          frame' = [frame EXCEPT !.pc = "return", !.llm = llm, !.coerce = coerce,
                                 !.ret = extract_structured_data(llm, coerce)]
    /\ UNCHANGED service_vars

NextExtract == Extract

SpecExtract == InitExtract /\ [][NextExtract]_vars

\* C7: for every JSON object the generation capability returns, keys outside
\* the schema included, the confidence of the StructuredData returned is
\* (number of its non-null schema fields)/11 (to the three decimals kept),
\* and so never exceeds 1.
C7_CoverageConfidence ==
    (frame.fn = "extract_structured_data" /\ frame.pc = "return"
        /\ frame.llm.kind = "object") =>
        LET filled == Cardinality({f \in SchemaFields : frame.ret.fields[f] # "None"})
        IN  /\ frame.ret.confidence = Round3([num |-> filled, den |-> 11])
            /\ frame.ret.confidence <= 1000

-----------------------------------------------------------------------------
(* The API endpoints over document_store                                   *)

EndsWith(s, suffix) ==
    Len(s) >= Len(suffix) /\ SubSeq(s, Len(s) - Len(suffix) + 1, Len(s)) = suffix

ExtTxt == <<".", "t", "x", "t">>

ExtPdf == <<".", "p", "d", "f">>

ExtDocx == <<".", "d", "o", "c", "x">>

\* lines 84-99: a file is [filename, content]; content is the text the
\* format's reader yields (the decoded bytes of a .txt file)
extract_text(file) ==
    IF EndsWith(file.filename, ExtPdf) \/ EndsWith(file.filename, ExtDocx)
       \/ EndsWith(file.filename, ExtTxt)
    THEN [raised |-> "none", text |-> Strip(file.content)]
    ELSE [raised |-> "HTTPException", text |-> <<>>]

\* line 102: the defaults chunk_size=500, overlap=100
DefaultChunkSize == 500

DefaultOverlap == 100

TicksPerSecond == 2

\* line 365: f"doc_{datetime.now().strftime('%Y%m%d_%H%M%S')}", the clock
\* truncated to whole seconds
DocId(now) == now \div TicksPerSecond

Put(store, doc_id, doc) ==
    [d \in DOMAIN store \cup {doc_id} |-> IF d = doc_id THEN doc ELSE store[d]]

FileRate == [filename |-> <<"r", "a", "t", "e", ".", "t", "x", "t">>, content |-> SP \o TextRate \o <<"\n">>]

FileEmpty == [filename |-> <<"e", "m", "p", "t", "y", ".", "t", "x", "t">>, content |-> <<>>]

FileOther == [filename |-> <<"r", "a", "t", "e", ".", "x", "l", "s", "x">>, content |-> TextRate]

Files == {FileRate, FileEmpty, FileOther}

MaxClock == 2

MaxUploads == 2

MaxInFlight == 2

DocIds == 0..(DocId(MaxClock) + 1)

\* the encoders and generation outcomes tried at the endpoints
ServiceEncoderTables ==
    {t \in EncoderTables : t[TextWeight] = <<25, 0>> /\ t[QuestionRate] = <<25, 0>>
                           /\ t[TextRate] \in {<<25, 0>>, <<-25, 0>>}}

ServiceGenerationOutcomes ==
    {[raised |-> TRUE, text |-> ErrorText],
     [raised |-> FALSE, text |-> AnswerRate],
     [raised |-> FALSE, text |-> AnswerNotFound]}

Init ==
    /\ document_store = <<>>
    /\ clock = 0
    /\ client \in BOOLEAN
    /\ embedding_model \in ServiceEncoderTables
    /\ inflight = <<>>
    /\ uploads_ok = 0
    /\ response = [endpoint |-> "none"]
    /\ frame = [fn |-> "none"]

\* time passes
Tick ==
    /\ clock < MaxClock
    /\ clock' = clock + 1
    /\ UNCHANGED <<document_store, client, embedding_model, inflight, uploads_ok,
                   response, frame>>

\* lines 349-353: the handler up to `await file.read()`, where other
\* requests may run
upload_document_read(file) ==
    /\ uploads_ok + Len(inflight) < MaxUploads
    /\ Len(inflight) < MaxInFlight
    /\ inflight' = Append(inflight, file)
    /\ UNCHANGED <<document_store, clock, client, embedding_model, uploads_ok,
                   response, frame>>

Remove(seq, i) == SubSeq(seq, 1, i - 1) \o SubSeq(seq, i + 1, Len(seq))

\* lines 355-384: the rest of the handler, run without suspension
upload_document(i) ==
    /\ i \in 1..Len(inflight)
    /\ inflight' = Remove(inflight, i)
    /\ LET file == inflight[i]
           extracted == extract_text(file)
           chunked == intelligent_chunk(extracted.text, DefaultChunkSize,
                                        DefaultOverlap)
           doc_id == DocId(clock)
       IN  IF extracted.raised # "none" \/ chunked.raised # "none"
           THEN /\ response' = [endpoint |-> "upload", status |-> 500]
                /\ UNCHANGED <<document_store, uploads_ok>>
           ELSE /\ document_store' =
                      Put(document_store, doc_id,
                          [filename |-> file.filename,
                           text |-> extracted.text,
                           chunks |-> chunked.chunks,
                           embeddings |-> create_embeddings(chunked.chunks),
                           uploaded_at |-> clock])
                /\ uploads_ok' = uploads_ok + 1
                /\ response' = [endpoint |-> "upload", status |-> 200,
                                doc_id |-> doc_id, filename |-> file.filename,
                                chunks_created |-> Len(chunked.chunks)]
    /\ UNCHANGED <<clock, client, embedding_model, frame>>

\* lines 388-401
ask_question_pop(doc_id, question) ==
    /\ doc_id \in DOMAIN document_store
    /\ document_store' = [d \in DOMAIN document_store \ {doc_id} |-> document_store[d]]
    /\ response' = [endpoint |-> "ask", doc_id |-> doc_id, status |-> 200]
    /\ UNCHANGED <<clock, client, embedding_model, inflight, uploads_ok, frame>>

ask_question(doc_id, question) ==
    /\ IF doc_id \notin DOMAIN document_store
       THEN response' = [endpoint |-> "ask", doc_id |-> doc_id, status |-> 404]
       ELSE LET doc == document_store[doc_id]
            IN  \E retrieved \in RetrieveOutcomes(question, doc.chunks,
                                                  doc.embeddings, 3),
                   llm \in ServiceGenerationOutcomes :
                   LET answer == answer_question(retrieved, llm)
                   IN  response' =
                         IF answer.raised # "none"
                         THEN [endpoint |-> "ask", doc_id |-> doc_id, status |-> 500,
                               raised |-> answer.raised]
                         ELSE [endpoint |-> "ask", doc_id |-> doc_id, status |-> 200,
                               answer |-> answer.answer, sources |-> answer.sources,
                               confidence |-> answer.confidence,
                               reasoning |-> answer.reasoning]
    /\ UNCHANGED <<document_store, clock, client, embedding_model, inflight,
                   uploads_ok, frame>>

\* the generation outcomes tried at the extract endpoint
ServiceExtractionOutcomes ==
    {[kind |-> "raise", data |-> NoData],
     [kind |-> "object", data |-> [NoData EXCEPT !["rate"] = "string"]],
     [kind |-> "object", data |-> [NoData EXCEPT !["notes"] = "string"]]}

\* lines 405-413
extract_structured(doc_id) ==
    /\ IF doc_id \notin DOMAIN document_store
       THEN response' = [endpoint |-> "extract", doc_id |-> doc_id, status |-> 404]
       ELSE \E llm \in ServiceExtractionOutcomes, coerce \in BOOLEAN :
               response' = [endpoint |-> "extract", doc_id |-> doc_id, status |-> 200,
                            data |-> extract_structured_data(llm, coerce)]
    /\ UNCHANGED <<document_store, clock, client, embedding_model, inflight,
                   uploads_ok, frame>>

\* lines 417-429
list_documents ==
    /\ response' = [endpoint |-> "documents", status |-> 200,
                    documents |-> [d \in DOMAIN document_store |->
                                     [filename |-> document_store[d].filename,
                                      uploaded_at |-> document_store[d].uploaded_at,
                                      chunks |-> Len(document_store[d].chunks)]]]
    /\ UNCHANGED <<document_store, clock, client, embedding_model, inflight,
                   uploads_ok, frame>>

\* lines 433-439
health_check ==
    /\ response' = [endpoint |-> "health", status |-> 200,
                    anthropic_available |-> client,
                    documents_loaded |-> Cardinality(DOMAIN document_store)]
    /\ UNCHANGED <<document_store, clock, client, embedding_model, inflight,
                   uploads_ok, frame>>

Next ==
    \/ Tick
    \/ \E file \in Files : upload_document_read(file)
    \/ \E i \in 1..MaxInFlight : upload_document(i)
    \/ \E doc_id \in DocIds, question \in Questions : ask_question(doc_id, question)
    \/ \E doc_id \in DocIds : extract_structured(doc_id)
    \/ list_documents
    \/ health_check

Spec == Init /\ [][Next]_vars

\* C1: every upload gets an identifier no other upload has, concurrent
\* uploads and uploads within one clock-resolution window included, so no
\* upload overwrites a stored document: after n successful uploads the
\* store holds n documents.
C1_UploadsKeepDistinctDocuments ==
    Cardinality(DOMAIN document_store) = uploads_ok

\* C8: asking about a stored document with zero chunks completes with the
\* Rule 1 scope refusal (confidence 0, 'Guardrail triggered', no sources),
\* with and without a generation client, instead of raising.
C8_ZeroChunkDocumentRefused ==
    (/\ response.endpoint = "ask"
     /\ response.doc_id \in DOMAIN document_store
     /\ document_store[response.doc_id].chunks = <<>>) =>
        /\ response.status = 200
        /\ response.answer = "NOT_FOUND"
        /\ response.confidence = 0
        /\ response.reasoning = "Guardrail triggered"
        /\ response.sources = <<>>

\* C9: ask and extract never modify the document store, for known and
\* unknown doc_id and every outcome, under any interleaving of requests.
C9_AskAndExtractReadOnly ==
    [][((\E doc_id \in DocIds, question \in Questions :
            ask_question(doc_id, question))
        \/ (\E doc_id \in DocIds : extract_structured(doc_id)))
       => document_store' = document_store]_vars

\* an ask answered normally for a stored document while an upload is
\* suspended at its read
C9_Witness ==
    /\ response.endpoint = "ask"
    /\ response.status = 200
    /\ response.answer = "generated"
    /\ response.doc_id \in DOMAIN document_store
    /\ Len(inflight) >= 1

====
